---- MODULE Spec2Model ----
(***************************************************************************)
(* Model of invoice_agent.services.product_service.ProductService: the     *)
(* catalog loader (load_products), the catalog reader (get_all_products)   *)
(* and the fuzzy matcher (check_product); and of                           *)
(* invoice_agent.services.ocr_service.OCRService: the batch loop           *)
(* (extract_batch_text over extract_text) and the PDF path (process_pdf).  *)
(*                                                                         *)
(* Strings are sequences of one-character strings, so that strip(), the    *)
(* substring test of the header check and the rapidfuzz similarity         *)
(* measures are computed character by character.                           *)
(* Scores are the rationals k / ScoreScale, k in 0..ScoreScale.            *)
(***************************************************************************)
EXTENDS Integers, Sequences, FiniteSets, TLC

(***************************************************************************)
(* Bounds of the model                                                     *)
(***************************************************************************)
MaxRows == 3
MaxResults == 3
\* the catalog file is rewritten on disk only while it has at most this many
\* data lines
MaxRewriteRows == 1
\* the files of one batch request
MaxFiles == 2
\* the pages of a PDF
MaxPages == 2

(***************************************************************************)
(* Generic sequence helpers                                                *)
(***************************************************************************)
Take(s, n) == SubSeq(s, 1, IF n < Len(s) THEN n ELSE Len(s))

Max2(a, b) == IF a >= b THEN a ELSE b

SetMax(S) == CHOOSE x \in S : \A y \in S : y <= x

SeqsUpTo(S, n) == UNION {[1..k -> S] : k \in 0..n}

\* the element of a one-element set
Only(S) == CHOOSE x \in S : TRUE

(***************************************************************************)
(* str.strip(): removes leading and trailing whitespace                    *)
(***************************************************************************)
RECURSIVE LStrip(_)
LStrip(s) == IF s # <<>> /\ Head(s) = " " THEN LStrip(Tail(s)) ELSE s

RECURSIVE RStrip(_)
RStrip(s) ==
    IF s # <<>> /\ s[Len(s)] = " " THEN RStrip(SubSeq(s, 1, Len(s) - 1)) ELSE s

Strip(s) == RStrip(LStrip(s))

(***************************************************************************)
(* `sub in s` on strings: sub occurs in s as a contiguous substring        *)
(***************************************************************************)
Contains(sub, s) ==
    \E i \in 1..(Len(s) - Len(sub) + 1) : SubSeq(s, i, i + Len(sub) - 1) = sub

(***************************************************************************)
(* rapidfuzz.fuzz measures, scaled to 0..ScoreScale (the code divides the  *)
(* 0..100 value by 100.0).  ScoreScale = 60 keeps every quotient exact for *)
(* strings whose lengths sum to at most 6.                                 *)
(***************************************************************************)
ScoreScale == 60

RECURSIVE LCS(_, _)
LCS(s, t) ==
    IF s = <<>> \/ t = <<>> THEN 0
    ELSE IF Head(s) = Head(t) THEN 1 + LCS(Tail(s), Tail(t))
    ELSE Max2(LCS(Tail(s), t), LCS(s, Tail(t)))

\* fuzz.ratio: normalized Indel similarity, 2*LCS / (len1 + len2)
Ratio(s, t) ==
    IF Len(s) + Len(t) = 0 THEN ScoreScale
    ELSE (2 * LCS(s, t) * ScoreScale) \div (Len(s) + Len(t))

\* the windows of `longer` that partial_ratio aligns a needle of length n to:
\* proper prefixes shorter than n, every substring of length n, and suffixes
Windows(n, longer) ==
    {SubSeq(longer, 1, i) : i \in 1..(n - 1)}
    \cup {SubSeq(longer, i, i + n - 1) : i \in 1..(Len(longer) - n + 1)}
    \cup {SubSeq(longer, i, Len(longer)) : i \in (Len(longer) - n + 2)..Len(longer)}

PartialImpl(shorter, longer) ==
    SetMax({0} \cup {Ratio(shorter, w) : w \in Windows(Len(shorter), longer)})

\* fuzz.partial_ratio
PartialRatio(s, t) ==
    IF Len(s) = 0 /\ Len(t) = 0 THEN ScoreScale
    ELSE IF Len(s) = 0 \/ Len(t) = 0 THEN 0
    ELSE IF Len(s) < Len(t) THEN PartialImpl(s, t)
    ELSE IF Len(t) < Len(s) THEN PartialImpl(t, s)
    ELSE Max2(PartialImpl(s, t), PartialImpl(t, s))

\* str.split(): the whitespace-delimited tokens of s
RECURSIVE Split(_, _)
Split(s, cur) ==
    IF s = <<>> THEN (IF cur = <<>> THEN <<>> ELSE <<cur>>)
    ELSE IF Head(s) = " "
         THEN (IF cur = <<>> THEN <<>> ELSE <<cur>>) \o Split(Tail(s), <<>>)
         ELSE Split(Tail(s), Append(cur, Head(s)))

\* the code point order of the characters used
CharOrd(c) ==
    IF c = " " THEN 0 ELSE IF c = "A" THEN 1 ELSE IF c = "a" THEN 2
    ELSE IF c = "b" THEN 3 ELSE 4

\* lexicographic order on strings
RECURSIVE StrLess(_, _)
StrLess(s, t) ==
    IF t = <<>> THEN FALSE
    ELSE IF s = <<>> THEN TRUE
    ELSE IF Head(s) = Head(t) THEN StrLess(Tail(s), Tail(t))
    ELSE CharOrd(Head(s)) < CharOrd(Head(t))

\* sorted(tokens): insertion into an ascending sequence
RECURSIVE InsertToken(_, _)
InsertToken(tok, sorted) ==
    IF sorted = <<>> THEN <<tok>>
    ELSE IF StrLess(tok, Head(sorted)) THEN <<tok>> \o sorted
    ELSE <<Head(sorted)>> \o InsertToken(tok, Tail(sorted))

RECURSIVE SortTokens(_)
SortTokens(toks) ==
    IF toks = <<>> THEN <<>> ELSE InsertToken(Head(toks), SortTokens(Tail(toks)))

\* " ".join(tokens)
RECURSIVE Join(_)
Join(toks) ==
    IF toks = <<>> THEN <<>>
    ELSE IF Len(toks) = 1 THEN Head(toks)
    ELSE Head(toks) \o <<" ">> \o Join(Tail(toks))

\* fuzz.token_sort_ratio
TokenSortRatio(s, t) ==
    Ratio(Join(SortTokens(Split(s, <<>>))), Join(SortTokens(Split(t, <<>>))))

\* variant: the average of the three measures
SimilarityAverage(q, name) ==
    (Ratio(q, name) + PartialRatio(q, name) + TokenSortRatio(q, name)) \div 3

\* similarity = max(ratio, partial_ratio, token_sort_ratio)
Similarity(q, name) ==
    Max2(Ratio(q, name), Max2(PartialRatio(q, name), TokenSortRatio(q, name)))

(***************************************************************************)
(* The catalog source: a CSV file as csv.reader yields it.  lines[1] is    *)
(* the header row, the others the data rows; each row is a sequence of     *)
(* column strings.  bad = k > 0: reading line k raises (undecodable        *)
(* bytes); bad = 0: every line can be read.                                *)
(***************************************************************************)
ColId == <<"pin", "hao">>
ColName == <<"pin", "ming">>
ColUnit == <<"dan", "wei">>
ColCurrency == <<"bi", "bie">>

GoodHeader == <<ColId, ColName, ColUnit, ColCurrency>>
WideHeader == <<<<"chan">> \o ColId, ColName \o <<"cheng">>, ColUnit, ColCurrency, <<"x">>>>
ShortHeader == <<ColId, ColName, ColUnit>>
BadIdHeader == <<<<"hao">>, ColName, ColUnit, ColCurrency>>
BadNameHeader == <<ColId, <<"ming", "pin">>, ColUnit, ColCurrency>>

BadHeaders == {ShortHeader, BadIdHeader, BadNameHeader}

Row(id, name) == <<<<id>>, name, <<"u">>, <<"c">>>>

\* the data rows: two rows of the same name and different ids, names that
\* contain or resemble each other, a name that differs from another by case
\* only, a row of 5 columns with an empty name, and a row of 3 columns
RowPool ==
    { Row("1", <<"a">>), Row("2", <<"a">>), Row("2", <<"a", "b">>),
      Row("1", <<"A", "b">>),
      Row("1", <<>>) \o <<<<"x">>>>,
      <<<<"1">>, <<"a">>, <<"u">>>> }

SmallRowPool == {Row("1", <<"a">>), <<<<"1">>, <<"a">>, <<"u">>>>}

File(exists, lines, bad) == [exists |-> exists, lines |-> lines, bad |-> bad]

GoodFiles ==
    {File(TRUE, <<GoodHeader>> \o rows, 0) : rows \in SeqsUpTo(RowPool, MaxRows)}

OtherFiles ==
    {File(FALSE, <<>>, 0), File(TRUE, <<>>, 0)}
    \cup {File(TRUE, <<h>> \o rows, 0) :
            h \in BadHeaders \cup {WideHeader}, rows \in SeqsUpTo(SmallRowPool, 1)}
    \cup UNION {{File(TRUE, <<GoodHeader>> \o rows, k) : k \in 1..(Len(rows) + 1)} :
            rows \in SeqsUpTo(SmallRowPool, 2)}

Files == GoodFiles \cup OtherFiles

\* what the catalog file is rewritten to while the service runs: removed, a
\* rejected header, another well-formed catalog, a catalog whose third line
\* cannot be read
Rewrites ==
    { File(FALSE, <<>>, 0),
      File(TRUE, <<BadIdHeader>>, 0),
      File(TRUE, <<GoodHeader, Row("2", <<"a", "b">>)>>, 0),
      File(TRUE, <<GoodHeader, Row("2", <<"a", "b">>), Row("1", <<"a">>)>>, 3) }

\* the raw product_name arguments
Queries ==
    { <<>>, <<" ">>, <<"a">>, <<" ", "a", " ">>, <<"a", "b">>, <<"b", " ", "a">> }

\* the threshold arguments: 0, 0.4 (the default), 0.8 and 1
Thresholds == {0, (2 * ScoreScale) \div 5, (4 * ScoreScale) \div 5, ScoreScale}

(***************************************************************************)
(* State                                                                   *)
(***************************************************************************)
\* file: the catalog file at products_file_path
\* products, products_dict, products_name_dict, products_loaded: the fields
\*   of the service object
\* ret: the last call, its arguments and what it returned; ret.rows[j] is the
\*   position in self.products of the record result j was built from;
\*   ret.ran: the call ran load_products; ret.was_loaded: products_loaded
\*   was true when the call began
\* attempted: load_products has run in this process
\* batch: one extract_batch_text call: its files, the position of its loop
\*   and its results
\* pdf: one process_pdf call: the PDF and what its environment will do, the
\*   position in the function body, the temporary file and the result
VARIABLES file, products, products_dict, products_name_dict, products_loaded, ret, attempted, batch, pdf

vars == <<file, products, products_dict, products_name_dict, products_loaded, ret, attempted, batch, pdf>>

serviceVars == <<file, products, products_dict, products_name_dict, products_loaded, ret, attempted>>

EmptyDict == [k \in {} |-> <<>>]

\* variant: the first value stored under a key is kept
DictSetDefault(dict, key, value) ==
    [k \in DOMAIN dict \cup {key} |-> IF k \in DOMAIN dict THEN dict[k] ELSE value]

\* dict[key] = value
DictSet(dict, key, value) ==
    [k \in DOMAIN dict \cup {key} |-> IF k = key THEN value ELSE dict[k]]

\* models.product.Product
Product(row) ==
    [product_id |-> row[1], name |-> row[2], unit |-> row[3],
     currency |-> row[4], price |-> 0]

\* models.product.ProductMatchResult
ProductMatchResult(product, score, input) ==
    [product_id |-> product.product_id, name |-> product.name,
     unit |-> product.unit, currency |-> product.currency, price |-> 0,
     match_score |-> score, original_input |-> input]

Catalog(ps, byId, byName, loaded, ok) ==
    [products |-> ps, products_dict |-> byId, products_name_dict |-> byName,
     products_loaded |-> loaded, ok |-> ok, ran |-> FALSE]

Current == Catalog(products, products_dict, products_name_dict, products_loaded, TRUE)

Return(op, name, m, t, ok, value, rows, ran) ==
    [op |-> op, product_name |-> name, max_results |-> m, threshold |-> t,
     ok |-> ok, value |-> value, rows |-> rows, ran |-> ran,
     was_loaded |-> op # "none" /\ products_loaded]

(***************************************************************************)
(* load_products                                                           *)
(***************************************************************************)
\* variant: the number of header columns is not tested
HeaderOkAnyLength(headers) ==
    ~(~Contains(ColId, headers[1]) \/ ~Contains(ColName, headers[2]))

\* the header row is accepted
HeaderOk(headers) ==
    ~(Len(headers) < 4 \/ ~Contains(ColId, headers[1]) \/ ~Contains(ColName, headers[2]))

\* variant: only rows of exactly four columns become products
RowOkExactlyFour(row) == Len(row) = 4

\* a data row becomes a product
RowOk(row) == Len(row) >= 4

\* the loop over the data rows, from line k on; cat is the catalog so far
RECURSIVE ReadRows(_, _, _)
ReadRows(f, k, cat) ==
    IF k > Len(f.lines)
    THEN Catalog(cat.products, cat.products_dict, cat.products_name_dict, TRUE, TRUE)
    ELSE IF f.bad = k
    THEN Catalog(cat.products, cat.products_dict, cat.products_name_dict,
                 cat.products_loaded, FALSE)
    ELSE IF RowOk(f.lines[k])
    THEN LET product == Product(f.lines[k])
         IN  ReadRows(f, k + 1,
                 Catalog(Append(cat.products, product),
                         DictSet(cat.products_dict, product.product_id, product),
                         DictSet(cat.products_name_dict, product.name, product),
                         cat.products_loaded, TRUE))
    ELSE ReadRows(f, k + 1, cat)

\* variant: the three structures are not emptied before the file is read
ClearedNothing(cat) ==
    Catalog(cat.products, cat.products_dict, cat.products_name_dict,
            cat.products_loaded, FALSE)

\* `self.products = []`, `self.products_dict = {}`, `self.products_name_dict = {}`
Cleared(cat) == Catalog(<<>>, EmptyDict, EmptyDict, cat.products_loaded, FALSE)

\* the catalog after load_products ran on file f from catalog cat,
\* (field ok) the value it returned and (field ran) the mark that it ran
LoadProducts(f, cat) ==
    [(IF ~f.exists
      THEN Catalog(cat.products, cat.products_dict, cat.products_name_dict,
                   cat.products_loaded, FALSE)
      ELSE LET cleared == Cleared(cat)
           IN  IF Len(f.lines) = 0 \/ f.bad = 1 THEN cleared
               ELSE IF ~HeaderOk(f.lines[1]) THEN cleared
               ELSE ReadRows(f, 2, cleared))
     EXCEPT !.ran = TRUE]

\* variant: the test of products_loaded is inverted
LazyLoadInverted(f, cat) == IF cat.products_loaded THEN LoadProducts(f, cat) ELSE cat

\* variant: the catalog is loaded on every call
LazyLoadAlways(f, cat) == LoadProducts(f, cat)

\* `if not self.products_loaded: await self.load_products()`
LazyLoad(f, cat) == IF ~cat.products_loaded THEN LoadProducts(f, cat) ELSE cat

Install(cat) ==
    /\ products' = cat.products
    /\ products_dict' = cat.products_dict
    /\ products_name_dict' = cat.products_name_dict
    /\ products_loaded' = cat.products_loaded
    /\ attempted' = (attempted \/ cat.ran)

Load ==
    /\ ret.op = "none"
    /\ \E cat \in {LoadProducts(file, Current)} :
         /\ Install(cat)
         /\ ret' = Return("load_products", <<>>, 0, 0, cat.ok, <<>>, <<>>, cat.ran)
    /\ UNCHANGED <<file, batch, pdf>>

(***************************************************************************)
(* get_all_products                                                        *)
(***************************************************************************)
GetAllProducts ==
    /\ ret.op = "none"
    /\ \E cat \in {LazyLoad(file, Current)} :
         /\ Install(cat)
         /\ ret' = Return("get_all_products", <<>>, 0, 0, TRUE, cat.products, <<>>,
                          cat.ran)
    /\ UNCHANGED <<file, batch, pdf>>

(***************************************************************************)
(* check_product                                                           *)
(***************************************************************************)
\* variant: only the empty string is rejected, not a whitespace-only one
IsBlankNoStrip(product_name) == product_name = <<>>

\* `not product_name or not product_name.strip()`
IsBlank(product_name) == product_name = <<>> \/ Strip(product_name) = <<>>

\* variant: the name is looked up in the index by product id
HasExactById(cat, normalized_name) == normalized_name \in DOMAIN cat.products_dict

\* `normalized_name in self.products_name_dict`
HasExact(cat, normalized_name) == normalized_name \in DOMAIN cat.products_name_dict

\* variant: the threshold test is exclusive
KeepStrict(similarity, threshold) == similarity > threshold

\* `similarity >= threshold`
Keep(similarity, threshold) == similarity >= threshold

\* the scoring loop: the (product, similarity) pairs kept, in catalog order;
\* row is the position of the product in self.products
MatchScores(ps, normalized_name, threshold) ==
    LET scored == [i \in 1..Len(ps) |->
                     [product |-> ps[i], score |-> Similarity(normalized_name, ps[i].name),
                      row |-> i]]
    IN  SelectSeq(scored, LAMBDA c : Keep(c.score, threshold))

\* variant: the sort is ascending
BeforeAscending(c, d) == c.score < d.score

\* variant: the sort is not stable, a candidate overtakes its equals
BeforeOrEqual(c, d) == c.score >= d.score

\* c goes before d in match_scores.sort(key=score, reverse=True)
Before(c, d) == c.score > d.score

\* the stable sort: c is put in front of the first element it goes before
RECURSIVE InsertSorted(_, _)
InsertSorted(c, sorted) ==
    IF sorted = <<>> THEN <<c>>
    ELSE IF Before(c, Head(sorted)) THEN <<c>> \o sorted
    ELSE <<Head(sorted)>> \o InsertSorted(c, Tail(sorted))

RECURSIVE SortScores(_)
SortScores(cs) ==
    IF cs = <<>> THEN <<>>
    ELSE InsertSorted(cs[Len(cs)], SortScores(SubSeq(cs, 1, Len(cs) - 1)))

\* `match_scores[:max_results]`
Top(sorted, max_results) == Take(sorted, max_results)

\* variant: nothing is skipped
SkipNone(exact_match, c, normalized_name) == FALSE

\* `if exact_match and product.name == normalized_name: continue`
Skip(exact_match, c, normalized_name) == exact_match /\ c.product.name = normalized_name

\* the candidates appended to result_products after the exact match
Ranked(cat, normalized_name, max_results, threshold, exact_match) ==
    SelectSeq(Top(SortScores(MatchScores(cat.products, normalized_name, threshold)),
                  max_results),
              LAMBDA c : ~Skip(exact_match, c, normalized_name))

\* variant: no early return
EarlyReturnNever(exact_match, max_results) == FALSE

\* `if max_results == 1: return exact_match, result_products` under
\* `if normalized_name in self.products_name_dict`
EarlyReturn(exact_match, max_results) == exact_match /\ max_results = 1

\* the position in self.products of the record products_name_dict holds for name
RowOf(ps, name) == SetMax({0} \cup {i \in 1..Len(ps) : ps[i].name = name})

\* check_product on catalog cat: [exact_match, result_products, rows], rows[i]
\* being the position in self.products of the record result i was built from
CheckResult(cat, product_name, max_results, threshold) ==
    IF IsBlank(product_name) THEN [exact_match |-> FALSE, results |-> <<>>, rows |-> <<>>]
    ELSE
    LET normalized_name == Strip(product_name)
        exact_match == HasExact(cat, normalized_name)
        first == IF exact_match
                 THEN <<ProductMatchResult(cat.products_name_dict[normalized_name],
                                           ScoreScale, product_name)>>
                 ELSE <<>>
        firstRow == IF exact_match THEN <<RowOf(cat.products, normalized_name)>> ELSE <<>>
    IN  IF EarlyReturn(exact_match, max_results)
        THEN [exact_match |-> TRUE, results |-> first, rows |-> firstRow]
        ELSE Only({[exact_match |-> exact_match,
                    results |-> first \o
                        [i \in 1..Len(ranked) |->
                            ProductMatchResult(ranked[i].product, ranked[i].score,
                                               product_name)],
                    rows |-> firstRow \o [i \in 1..Len(ranked) |-> ranked[i].row]] :
                   ranked \in {Ranked(cat, normalized_name, max_results, threshold,
                                      exact_match)}})

\* the API handler has returned the response; the service takes the next call
Idle == ret.op = "none"

CheckProduct(product_name, max_results, threshold) ==
    /\ Idle
    /\ \E cat \in {LazyLoad(file, Current)} :
         \E res \in {CheckResult(cat, product_name, max_results, threshold)} :
            /\ Install(cat)
            /\ ret' = Return("check_product", product_name, max_results, threshold,
                             res.exact_match, res.results, res.rows, cat.ran)
    /\ UNCHANGED <<file, batch, pdf>>

NoReturn == Return("none", <<>>, 0, 0, FALSE, <<>>, <<>>, FALSE)

\* the API handler hands the result to its client
Respond ==
    /\ ~Idle
    /\ ret' = NoReturn
    /\ UNCHANGED <<file, products, products_dict, products_name_dict, products_loaded,
                   attempted, batch, pdf>>

(***************************************************************************)
(* The environment: the file at products_file_path is rewritten            *)
(***************************************************************************)
ReplaceFile ==
    /\ Idle
    /\ Len(file.lines) <= 1 + MaxRewriteRows
    /\ file' \in Rewrites \ {file}
    /\ UNCHANGED <<products, products_dict, products_name_dict, products_loaded, ret,
                   attempted, batch, pdf>>

(***************************************************************************)
(* OCRService.extract_text and extract_batch_text                          *)
(***************************************************************************)
Mimetypes == {"image/png", "application/pdf", "text/plain"}

\* a file of a batch request and what its processing meets: download: the
\* link can be downloaded; ocr: Vision (an image) or process_pdf (a PDF)
\* obtains the text of the file
FilePool ==
    [filename : {"f1", "f2"}, mimetype : Mimetypes, download : BOOLEAN, ocr : BOOLEAN]

\* process_image_with_vision: a dict in every case, with the recognized text
\* or, when Vision failed, with a fixed failure message as its text
ProcessImageWithVision(f) ==
    [type |-> "dict", text |-> IF f.ocr THEN "extracted" ELSE "message"]

\* process_pdf as extract_text sees it: a string in every case, the text or
\* a message
ProcessPdfText(f) == IF f.ocr THEN "extracted" ELSE "message"

\* extract_text: what it returns for file f; a failed download raises inside
\* the try block and comes back as the string of the except branch
ExtractText(f) ==
    IF ~f.download THEN [type |-> "str", text |-> "message"]
    ELSE IF f.mimetype = "application/pdf"
    THEN [type |-> "dict", text |-> ProcessPdfText(f)]
    ELSE ProcessImageWithVision(f)

\* the entry extract_batch_text appends for file f
BatchEntry(f) ==
    LET result == ExtractText(f)
    IN  IF result.type = "dict"
        THEN [filename |-> f.filename, mimetype |-> f.mimetype, text |-> result.text,
              success |-> TRUE, has_error |-> FALSE]
        ELSE IF result.type = "str"
        THEN [filename |-> f.filename, mimetype |-> f.mimetype, text |-> result.text,
              success |-> TRUE, has_error |-> FALSE]
        ELSE [filename |-> f.filename, mimetype |-> f.mimetype, text |-> "message",
              success |-> FALSE, has_error |-> TRUE]

NoBatch == [files |-> <<>>, results |-> <<>>, returned |-> TRUE]

\* one iteration of `for file_info in files`
ExtractBatchText ==
    /\ ~batch.returned
    /\ Len(batch.results) < Len(batch.files)
    /\ batch' = [batch EXCEPT
                   !.results = Append(@, BatchEntry(batch.files[Len(batch.results) + 1]))]
    /\ UNCHANGED <<serviceVars, pdf>>

\* `return results`
ExtractBatchReturn ==
    /\ ~batch.returned
    /\ Len(batch.results) = Len(batch.files)
    /\ batch' = [batch EXCEPT !.returned = TRUE]
    /\ UNCHANGED <<serviceVars, pdf>>

(***************************************************************************)
(* OCRService.process_pdf                                                  *)
(***************************************************************************)
\* a page counts as text when its stripped text is longer than this
TextLayerMin == 50

\* the lengths of the stripped text of a page
PageTexts == {0, TextLayerMin, TextLayerMin + 1}

\* what storing the PDF in the temporary file meets
StoreOutcomes == {"ok", "create_raises", "write_raises", "close_raises"}

\* what _process_pdf_with_ocr meets
OcrOutcomes == {"text", "no_text", "raises"}

NoPdf ==
    [pages |-> <<>>, reader_ok |-> TRUE, store |-> "ok", ocr |-> "text", unlink_ok |-> TRUE,
     pc |-> "done", temp_path |-> FALSE, on_disk |-> FALSE, ocr_ran |-> FALSE,
     result |-> [type |-> "none", texts |-> <<>>]]

\* `page_text and len(page_text.strip()) > 50`
HasText(n) == n > TextLayerMin

\* _extract_text_from_pdf: (extracted_text_pages, all_pages_have_text)
ExtractTextFromPdf(pages, reader_ok) ==
    IF ~reader_ok THEN [texts |-> <<>>, all |-> FALSE]
    ELSE LET texts == SelectSeq(pages, HasText)
         IN  [texts |-> texts, all |-> texts # <<>> /\ Len(texts) = Len(pages)]

\* the `with tempfile.NamedTemporaryFile(..., delete=False)` block: the file
\* is on disk once it is created; temp_path is assigned after the write
ProcessPdfStore ==
    /\ pdf.pc = "start"
    /\ pdf' = [pdf EXCEPT
                 !.on_disk = (pdf.store # "create_raises"),
                 !.temp_path = (pdf.store \in {"ok", "close_raises"}),
                 !.pc = IF pdf.store = "ok" THEN "extract" ELSE "except"]
    /\ UNCHANGED <<serviceVars, batch>>

\* the direct extraction and `if all_pages_have_text: return ...`
ProcessPdfExtract ==
    /\ pdf.pc = "extract"
    /\ \E r \in {ExtractTextFromPdf(pdf.pages, pdf.reader_ok)} :
         pdf' = IF r.all
                THEN [pdf EXCEPT !.result = [type |-> "direct", texts |-> r.texts],
                                 !.pc = "finally"]
                ELSE [pdf EXCEPT !.pc = "ocr"]
    /\ UNCHANGED <<serviceVars, batch>>

\* `return await self._process_pdf_with_ocr(pdf_path)`
ProcessPdfWithOcr ==
    /\ pdf.pc = "ocr"
    /\ pdf' = IF pdf.ocr = "raises"
              THEN [pdf EXCEPT !.ocr_ran = TRUE, !.pc = "except"]
              ELSE [pdf EXCEPT !.ocr_ran = TRUE,
                               !.result = [type |-> IF pdf.ocr = "text" THEN "ocr"
                                                    ELSE "message",
                                           texts |-> <<>>],
                               !.pc = "finally"]
    /\ UNCHANGED <<serviceVars, batch>>

\* `except Exception as e: return f"..."`
ProcessPdfExcept ==
    /\ pdf.pc = "except"
    /\ pdf' = [pdf EXCEPT !.result = [type |-> "message", texts |-> <<>>],
                          !.pc = "finally"]
    /\ UNCHANGED <<serviceVars, batch>>

\* the finally block: the file is unlinked if temp_path is set and the file
\* exists; a failure of os.unlink is logged only
ProcessPdfFinally ==
    /\ pdf.pc = "finally"
    /\ pdf' = [pdf EXCEPT
                 !.on_disk = IF pdf.temp_path /\ pdf.on_disk /\ pdf.unlink_ok
                             THEN FALSE ELSE pdf.on_disk,
                 !.pc = "done"]
    /\ UNCHANGED <<serviceVars, batch>>

(***************************************************************************)
(* Specification                                                           *)
(***************************************************************************)
InitService ==
    /\ products = <<>>
    /\ products_dict = EmptyDict
    /\ products_name_dict = EmptyDict
    /\ products_loaded = FALSE
    /\ ret = NoReturn
    /\ attempted = FALSE

Init ==
    /\ file \in Files
    /\ InitService
    /\ batch = NoBatch
    /\ pdf = NoPdf

Next ==
    \/ Load
    \/ GetAllProducts
    \/ \E q \in Queries, m \in 1..MaxResults, t \in Thresholds : CheckProduct(q, m, t)
    \/ Respond

Spec == Init /\ [][Next]_vars

\* the runs in which the catalog file is rewritten between calls
NextEnv ==
    \/ Load
    \/ GetAllProducts
    \/ \E q \in Queries, m \in 1..MaxResults, t \in Thresholds : CheckProduct(q, m, t)
    \/ Respond
    \/ ReplaceFile

SpecEnv == Init /\ [][NextEnv]_vars

\* the runs in which load_products is never called explicitly
NextLazy ==
    \/ GetAllProducts
    \/ \E q \in Queries, m \in 1..MaxResults, t \in Thresholds : CheckProduct(q, m, t)
    \/ Respond
    \/ ReplaceFile

SpecLazy == Init /\ [][NextLazy]_vars

\* one extract_batch_text call
InitBatch ==
    /\ file = File(FALSE, <<>>, 0)
    /\ InitService
    /\ batch \in {[files |-> fs, results |-> <<>>, returned |-> FALSE] :
                    fs \in SeqsUpTo(FilePool, MaxFiles)}
    /\ pdf = NoPdf

NextBatch == ExtractBatchText \/ ExtractBatchReturn

SpecBatch == InitBatch /\ [][NextBatch]_vars

\* one process_pdf call
InitPdf ==
    /\ file = File(FALSE, <<>>, 0)
    /\ InitService
    /\ batch = NoBatch
    /\ pdf \in {[NoPdf EXCEPT !.pages = ps, !.reader_ok = rd, !.store = st, !.ocr = oc,
                               !.unlink_ok = ul, !.pc = "start"] :
                  ps \in SeqsUpTo(PageTexts, MaxPages), rd \in BOOLEAN,
                  st \in StoreOutcomes, oc \in OcrOutcomes, ul \in BOOLEAN}

NextPdf ==
    \/ ProcessPdfStore
    \/ ProcessPdfExtract
    \/ ProcessPdfWithOcr
    \/ ProcessPdfExcept
    \/ ProcessPdfFinally

SpecPdf == InitPdf /\ [][NextPdf]_vars

(***************************************************************************)
(* Vocabulary of the properties, defined apart from the operators above    *)
(***************************************************************************)
SetMin(S) == CHOOSE x \in S : \A y \in S : x <= y

\* s without its leading and trailing spaces
Trimmed(s) ==
    LET solid == {i \in 1..Len(s) : s[i] # " "}
    IN  IF solid = {} THEN <<>> ELSE SubSeq(s, SetMin(solid), SetMax(solid))

IsCheck == ret.op = "check_product"

\* the trimmed query of the last check_product call
Query == Trimmed(ret.product_name)

\* the positions of the catalog entries named as the trimmed query
NamedAsQuery == {i \in 1..Len(products) : products[i].name = Query}

\* the similarity of catalog entry i to the trimmed query
Score(i) == Similarity(Query, products[i].name)

\* the positions of the catalog entries that reach the threshold
Surviving == {i \in 1..Len(products) : Score(i) >= ret.threshold}

\* the indexes of the ranked results: all of them but the exact match
Tail_ == {j \in 1..Len(ret.value) : ~(ret.ok /\ j = 1)}

\* result j is built from the catalog entry at position ret.rows[j]
BuiltFromRows ==
    /\ Len(ret.rows) = Len(ret.value)
    /\ \A j \in 1..Len(ret.value) :
         /\ ret.rows[j] \in 1..Len(products)
         /\ ret.value[j].product_id = products[ret.rows[j]].product_id
         /\ ret.value[j].name = products[ret.rows[j]].name

(***************************************************************************)
(* C1: the list returned by check_product has at most max_results          *)
(* elements.                                                               *)
(***************************************************************************)
C1_ResultCountBound == IsCheck => Len(ret.value) <= ret.max_results

(***************************************************************************)
(* C2: exact_match is true if and only if the trimmed query equals the     *)
(* name of some catalog entry; then the first result has that name and     *)
(* score 1.0.                                                              *)
(***************************************************************************)
C2_ExactMatchIffNamed ==
    IsCheck =>
        /\ ret.ok <=> NamedAsQuery # {}
        /\ ret.ok => /\ Len(ret.value) >= 1
                     /\ ret.value[1].name = Query
                     /\ ret.value[1].match_score = ScoreScale

(***************************************************************************)
(* C2 as amended: exact_match is true if and only if the trimmed query is  *)
(* not empty and equals the name of some catalog entry; then the first     *)
(* result has that name and score 1.0.                                     *)
(***************************************************************************)
C2_ExactMatchIffNamedNonEmpty ==
    IsCheck =>
        /\ ret.ok <=> (Query # <<>> /\ NamedAsQuery # {})
        /\ ret.ok => /\ Len(ret.value) >= 1
                     /\ ret.value[1].name = Query
                     /\ ret.value[1].match_score = ScoreScale

\* an exact match found for a query that had to be trimmed
C2_Witness ==
    /\ IsCheck /\ ret.ok
    /\ ret.product_name # Query
    /\ ret.value[1].name = Query

(***************************************************************************)
(* C3: when an exact match was found, no result after the first has the    *)
(* name of the trimmed query, and no catalog record is the source of two   *)
(* results.                                                                *)
(***************************************************************************)
C3_ExactNotDuplicated ==
    (IsCheck /\ ret.ok) =>
        /\ \A j \in 2..Len(ret.value) : ret.value[j].name # Query
        /\ BuiltFromRows
        /\ \A j, k \in 1..Len(ret.value) : j # k => ret.rows[j] # ret.rows[k]

\* an exact match followed by ranked results, on a catalog holding two
\* entries named as the query
C3_Witness ==
    /\ IsCheck /\ ret.ok
    /\ Len(ret.value) >= 2
    /\ Cardinality(NamedAsQuery) >= 2

(***************************************************************************)
(* C4: with max_results = 1 and an entry named as the trimmed query, the   *)
(* result is that exact match alone with score 1.0.                        *)
(***************************************************************************)
C4_MaxOneExactOnly ==
    (IsCheck /\ ret.max_results = 1 /\ NamedAsQuery # {}) =>
        /\ ret.ok
        /\ Len(ret.value) = 1
        /\ ret.value[1].name = Query
        /\ ret.value[1].match_score = ScoreScale

(***************************************************************************)
(* C4 as amended: with max_results = 1 and an entry named as the trimmed   *)
(* query, the trimmed query not being empty, the result is that exact      *)
(* match alone with score 1.0.                                             *)
(***************************************************************************)
C4_MaxOneExactOnlyNonEmpty ==
    (IsCheck /\ ret.max_results = 1 /\ Query # <<>> /\ NamedAsQuery # {}) =>
        /\ ret.ok
        /\ Len(ret.value) = 1
        /\ ret.value[1].name = Query
        /\ ret.value[1].match_score = ScoreScale

\* such a call where an entry of another name comes first in the catalog and
\* reaches the threshold with the top score
C4_Witness ==
    /\ IsCheck /\ ret.max_results = 1 /\ ret.ok
    /\ Len(ret.value) = 1
    /\ \E i \in Surviving : /\ products[i].name # Query
                            /\ Score(i) = ScoreScale
                            /\ i < SetMin(NamedAsQuery)

C6_Ordered ==
    IsCheck =>
        /\ ret.ok => /\ Len(ret.value) >= 1
                     /\ ret.value[1].name = Query
                     /\ \A j \in 2..Len(ret.value) : ret.value[j].name # Query
        /\ \A j, k \in 1..Len(ret.value) :
             j < k => ret.value[j].match_score >= ret.value[k].match_score

\* an exact match followed by a ranked result of a lower score that comes
\* before it in the catalog
C6_Witness ==
    /\ IsCheck /\ ret.ok
    /\ Len(ret.value) = 2
    /\ ret.value[2].match_score < ret.value[1].match_score
    /\ ret.value[2].match_score > 0
    /\ ret.rows[2] < ret.rows[1]

Min2(a, b) == IF a <= b THEN a ELSE b

\* the catalog positions of the records that are not returned: no result
\* carries their product id and name
NotReturned ==
    {i \in 1..Len(products) :
        \A j \in 1..Len(ret.value) :
            ~(/\ ret.value[j].product_id = products[i].product_id
              /\ ret.value[j].name = products[i].name)}

\* the ranked results with equal scores are in catalog order, and without an
\* exact match there are min(max_results, number of surviving entries) of them
RankedInOrder ==
    /\ BuiltFromRows
    /\ \A j, k \in Tail_ :
         (j < k /\ ret.value[j].match_score = ret.value[k].match_score)
            => ret.rows[j] < ret.rows[k]
    /\ ~ret.ok => Len(ret.value) = Min2(ret.max_results, Cardinality(Surviving))

(***************************************************************************)
(* C7: the ranked results are the first max_results surviving candidates   *)
(* in stable descending score order: a surviving entry that is not         *)
(* returned scores no more than any returned ranked result, and ranked     *)
(* results of equal score are in catalog order.                            *)
(***************************************************************************)
C7_RankedAreTop ==
    (IsCheck /\ Query # <<>>) =>
        /\ RankedInOrder
        /\ \A i \in Surviving \cap NotReturned :
             \A j \in Tail_ : Score(i) <= ret.value[j].match_score

(***************************************************************************)
(* C7 as amended: the same, for the surviving entries other than those     *)
(* skipped because an exact match was found and they have the name of the  *)
(* trimmed query.                                                          *)
(***************************************************************************)
C7_RankedAreTopButSkipped ==
    (IsCheck /\ Query # <<>>) =>
        /\ RankedInOrder
        /\ \A i \in Surviving \cap NotReturned :
             ~(ret.ok /\ products[i].name = Query)
                => \A j \in Tail_ : Score(i) <= ret.value[j].match_score

\* more surviving entries than max_results, two ranked results of equal
\* score, and a surviving entry of another name that is cut off
C7_Witness ==
    /\ IsCheck /\ Query # <<>>
    /\ Cardinality(Surviving) > ret.max_results
    /\ \E j, k \in Tail_ : j < k /\ ret.value[j].match_score = ret.value[k].match_score
    /\ \E i \in Surviving \cap NotReturned : products[i].name # Query

(***************************************************************************)
(* C8: a query that is empty or only whitespace returns (False, []).       *)
(***************************************************************************)
C8_BlankQueryEmpty ==
    (IsCheck /\ Query = <<>>) => (ret.ok = FALSE /\ ret.value = <<>>)

\* a whitespace-only query with threshold 0 on a catalog that holds an entry
\* with the empty name
C8_Witness ==
    /\ IsCheck /\ Query = <<>> /\ ret.product_name # <<>>
    /\ ret.threshold = 0
    /\ \E i \in 1..Len(products) : products[i].name = <<>>
    /\ ret.value = <<>>

\* the records of the data rows of the file that have at least 4 columns
ExpectedRecords ==
    LET full == SelectSeq(SubSeq(file.lines, 2, Len(file.lines)), LAMBDA r : Len(r) >= 4)
    IN  [i \in 1..Len(full) |->
           [product_id |-> full[i][1], name |-> full[i][2], unit |-> full[i][3],
            currency |-> full[i][4], price |-> 0]]

\* the file can be read and its header has the expected shape
WellFormed ==
    /\ file.exists /\ file.bad = 0 /\ Len(file.lines) >= 1
    /\ file.lines[1] \in {GoodHeader, WideHeader}

(***************************************************************************)
(* C10: once the catalog is loaded, get_all_products returns one record    *)
(* per data row of at least 4 columns, in file order, built from columns   *)
(* 0..3; load_products succeeds on a well-formed file whatever the length  *)
(* of its data rows and leaves exactly those records.                      *)
(***************************************************************************)
C10_GetAllIsFullRows ==
    /\ (ret.op = "get_all_products" /\ products_loaded) => ret.value = ExpectedRecords
    /\ (ret.op = "load_products" /\ WellFormed) => (ret.ok /\ products = ExpectedRecords)
    /\ (ret.op = "load_products" /\ ret.ok) => (products_loaded /\ products = ExpectedRecords)

\* get_all_products has returned two records of a file that also has a row
\* of fewer than 4 columns, and a row of 5 columns is among those returned
C10_Witness ==
    /\ ret.op = "get_all_products" /\ products_loaded
    /\ Len(ret.value) = 2
    /\ \E k \in 2..Len(file.lines) : Len(file.lines[k]) < 4
    /\ \E k \in 2..Len(file.lines) : Len(file.lines[k]) > 4

\* the last position of the expected records at which field has value v
LastWith(field, v) ==
    SetMax({i \in 1..Len(ExpectedRecords) : ExpectedRecords[i][field] = v})

\* the index of the expected records by product id: the last record wins
ExpectedById ==
    [v \in {ExpectedRecords[i].product_id : i \in 1..Len(ExpectedRecords)} |->
        ExpectedRecords[LastWith("product_id", v)]]

\* the index of the expected records by name: the last record wins
ExpectedByName ==
    [v \in {ExpectedRecords[i].name : i \in 1..Len(ExpectedRecords)} |->
        ExpectedRecords[LastWith("name", v)]]

\* the three structures hold exactly the records of the file
CompleteNew ==
    /\ products = ExpectedRecords
    /\ products_dict = ExpectedById
    /\ products_name_dict = ExpectedByName

(***************************************************************************)
(* C11: load_products replaces the catalog atomically: whatever call ran   *)
(* it, the catalog a reader finds afterwards is either the complete        *)
(* previous one (nothing changed) or the complete new one (every record of *)
(* the file), never a partially populated one.                             *)
(***************************************************************************)
C11_AtomicReplace ==
    [][ret'.ran =>
         \/ UNCHANGED <<products, products_dict, products_name_dict>>
         \/ CompleteNew']_vars

\* a step in which get_all_products or check_product is called
LazyStep == ret.op = "none" /\ ret'.op \in {"get_all_products", "check_product"}

(***************************************************************************)
(* C12: over get_all_products and check_product calls with no explicit     *)
(* load_products call, load_products runs at most once: a call that runs   *)
(* it is the first call to do so.                                          *)
(***************************************************************************)
C12_LoadRunsOnce == [][(LazyStep /\ ret'.ran) => ~attempted]_vars

(***************************************************************************)
(* C12, amended: over such calls load_products runs exactly in the calls   *)
(* that find products_loaded false, so it is not run again once a load     *)
(* has succeeded and is run again by every call after a load that failed;  *)
(* products_loaded, once true, stays true.                                 *)
(***************************************************************************)
C12_LoadRunsWhileUnloaded ==
    [][/\ LazyStep => (ret'.ran <=> ~products_loaded)
       /\ products_loaded => products_loaded']_vars

\* check_product found a loaded catalog of two records and did not run
\* load_products
C12_Witness ==
    /\ IsCheck /\ ~ret.ran
    /\ attempted /\ products_loaded
    /\ Len(products) = 2

(***************************************************************************)
(* C13: a check_product call that finds products_loaded true leaves        *)
(* products, products_dict, products_name_dict and products_loaded as they *)
(* were, so its result does not depend on the check_product calls made     *)
(* before it.                                                              *)
(***************************************************************************)
C13_CheckReadOnly ==
    [][(ret.op = "none" /\ ret'.op = "check_product" /\ products_loaded) =>
         UNCHANGED <<products, products_dict, products_name_dict, products_loaded>>]_vars

\* check_product has answered from a loaded catalog after the catalog file
\* was removed
C13_Witness ==
    /\ IsCheck /\ products_loaded /\ ~ret.ran
    /\ ~file.exists
    /\ Len(ret.value) >= 1

\* the header row has fewer than 4 columns, or its first column lacks the id
\* label, or its second column lacks the name label
HeaderRejected(h) ==
    \/ Len(h) < 4
    \/ \A i \in 1..(Len(h[1]) - 1) : SubSeq(h[1], i, i + 1) # ColId
    \/ \A i \in 1..(Len(h[2]) - 1) : SubSeq(h[2], i, i + 1) # ColName

\* the failures the claim lists: no file, or a file whose header is rejected
ListedFailure ==
    \/ ~file.exists
    \/ file.bad # 1 /\ Len(file.lines) >= 1 /\ HeaderRejected(file.lines[1])

(***************************************************************************)
(* C14: a load_products call on a missing file or on a file whose header   *)
(* has fewer than 4 columns or lacks the id or name label returns False    *)
(* and leaves products_loaded as it was; a load_products call returns True *)
(* only if every line of the file could be read, and then the catalog      *)
(* holds every record of the file and products_loaded is true.             *)
(***************************************************************************)
C14_LoadFailure ==
    [][(ret.op = "none" /\ ret'.op = "load_products") =>
         /\ ListedFailure => (~ret'.ok /\ products_loaded' = products_loaded)
         /\ ret'.ok => (file.exists /\ file.bad = 0 /\ products_loaded'
                          /\ products' = ExpectedRecords)]_vars

\* load_products has returned False on a file whose header has the id and
\* name labels but only three columns, and the catalog is not loaded
C14_Witness ==
    /\ ret.op = "load_products" /\ ~ret.ok
    /\ file.exists /\ file.bad = 0 /\ Len(file.lines) >= 1
    /\ Len(file.lines[1]) = 3 /\ file.lines[1][1] = ColId /\ file.lines[1][2] = ColName
    /\ ~products_loaded

(***************************************************************************)
(* C15: a check_product call whose lazy load failed, no load having ever   *)
(* succeeded before, returns (False, []).                                  *)
(***************************************************************************)
C15_FailedLoadNoMatch ==
    (IsCheck /\ ret.ran /\ ~products_loaded) => (~ret.ok /\ ret.value = <<>>)

(***************************************************************************)
(* C16: load_products on a well-formed file, called when the catalog was   *)
(* already loaded from that same file, succeeds and leaves products,       *)
(* products_dict and products_name_dict as the first load left them.       *)
(***************************************************************************)
C16_ReloadIdempotent ==
    [][(ret.op = "none" /\ ret'.op = "load_products" /\ products_loaded /\ WellFormed) =>
         /\ ret'.ok
         /\ UNCHANGED <<products, products_dict, products_name_dict>>]_vars

\* load_products has returned True on a catalog that was already loaded,
\* from a file of three records two of which share a name
C16_Witness ==
    /\ ret.op = "load_products" /\ ret.ok /\ ret.was_loaded
    /\ Len(products) = 3
    /\ \E i, j \in 1..3 : i < j /\ products[i].name = products[j].name

\* the three measures between the trimmed query and a name
Measures(name) ==
    {Ratio(Query, name), PartialRatio(Query, name), TokenSortRatio(Query, name)}

(***************************************************************************)
(* C17: every match_score returned lies between 0 and 1, and the score of  *)
(* a ranked result is the greatest of the ratio, the partial ratio and the *)
(* token-sort ratio between the trimmed query and the result's name.       *)
(***************************************************************************)
C17_ScoreIsMax ==
    IsCheck =>
        \A j \in 1..Len(ret.value) :
            /\ 0 <= ret.value[j].match_score
            /\ ret.value[j].match_score <= ScoreScale
            /\ j \in Tail_ =>
                 /\ ret.value[j].match_score \in Measures(ret.value[j].name)
                 /\ \A x \in Measures(ret.value[j].name) : x <= ret.value[j].match_score

\* a ranked result whose three measures differ, the token-sort ratio being
\* the greatest and the plain ratio the least, and whose score is below 1
C17_Witness ==
    /\ IsCheck
    /\ \E j \in Tail_ :
         /\ TokenSortRatio(Query, ret.value[j].name) > PartialRatio(Query, ret.value[j].name)
         /\ PartialRatio(Query, ret.value[j].name) > Ratio(Query, ret.value[j].name)
         /\ ret.value[j].match_score = TokenSortRatio(Query, ret.value[j].name)
         /\ ret.value[j].match_score < ScoreScale

\* the last position of the catalog at which the name is n
LastNamed(n) == SetMax({i \in 1..Len(products) : products[i].name = n})

(***************************************************************************)
(* C18: products_name_dict maps every name to the last catalog record of   *)
(* that name; a loaded catalog keeps every record of the file, those       *)
(* sharing a name included; and the first result of an exact match is      *)
(* built from the last record named as the trimmed query.                  *)
(***************************************************************************)
C18_LastNameWins ==
    /\ DOMAIN products_name_dict = {products[i].name : i \in 1..Len(products)}
    /\ \A n \in DOMAIN products_name_dict : products_name_dict[n] = products[LastNamed(n)]
    /\ products_loaded => products = ExpectedRecords
    /\ (IsCheck /\ ret.ok) =>
          /\ ret.value[1].product_id = products[LastNamed(Query)].product_id
          /\ ret.value[1].name = Query

\* an exact match on a catalog of two records of the queried name and
\* different ids has returned the second one first
C18_Witness ==
    /\ IsCheck /\ ret.ok /\ products_loaded
    /\ Len(products) = 2
    /\ products[1].name = Query /\ products[2].name = Query
    /\ products[1].product_id # products[2].product_id
    /\ ret.value[1].product_id = products[2].product_id

\* the download or the OCR processing of file f failed
Failed(f) == ~f.download \/ ~f.ocr

(***************************************************************************)
(* C19: extract_batch_text returns one result per input file, in input     *)
(* order; a file whose download or OCR processing failed has success =     *)
(* False and an error field, and success = True is reported only for a     *)
(* file whose text was extracted.                                          *)
(***************************************************************************)
C19_BatchReportsFailures ==
    (batch.returned /\ batch.files # <<>>) =>
        /\ Len(batch.results) = Len(batch.files)
        /\ \A i \in 1..Len(batch.files) :
             /\ batch.results[i].filename = batch.files[i].filename
             /\ Failed(batch.files[i]) =>
                  (~batch.results[i].success /\ batch.results[i].has_error)
             /\ batch.results[i].success => ~Failed(batch.files[i])

\* every page has text: the PDF has a page and the stripped text of every
\* page is longer than 50 characters
EveryPageHasText ==
    /\ Len(pdf.pages) >= 1
    /\ \A p \in 1..Len(pdf.pages) : pdf.pages[p] > 50

\* the two-branch decision of a process_pdf call that got to read the PDF
PdfDecision ==
    /\ pdf.result.type = "direct" =>
          (pdf.store = "ok" /\ pdf.reader_ok /\ EveryPageHasText
           /\ pdf.result.texts = pdf.pages)
    /\ (pdf.store = "ok" /\ pdf.reader_ok /\ EveryPageHasText) =>
          (pdf.result.type = "direct" /\ ~pdf.ocr_ran)
    /\ (pdf.store = "ok" /\ ~(pdf.reader_ok /\ EveryPageHasText)) => pdf.ocr_ran

(***************************************************************************)
(* C20: when process_pdf has returned, it has returned the directly        *)
(* extracted page texts exactly if the PDF has a page and every page gave  *)
(* more than 50 characters of stripped text, it has run the OCR otherwise, *)
(* and the temporary file it created is no longer on disk.                 *)
(***************************************************************************)
C20_PdfBranchesAndCleanup ==
    (pdf.pc = "done" /\ pdf.result.type # "none") => (PdfDecision /\ ~pdf.on_disk)

\* the two indexes agree with the product list: their key sets are the ids
\* and the names of the list, and every value is an element of the list that
\* has the key as its id or name
IndexesConsistent ==
    /\ DOMAIN products_dict = {products[i].product_id : i \in 1..Len(products)}
    /\ DOMAIN products_name_dict = {products[i].name : i \in 1..Len(products)}
    /\ \A k \in DOMAIN products_dict :
          \E i \in 1..Len(products) :
              products[i] = products_dict[k] /\ products[i].product_id = k
    /\ \A k \in DOMAIN products_name_dict :
          \E i \in 1..Len(products) :
              products[i] = products_name_dict[k] /\ products[i].name = k

\* a catalog marked loaded is what a successful load left: it became loaded,
\* or changed while loaded, only by taking every record of the file
LoadedIsComplete ==
    products_loaded' =>
        \/ UNCHANGED <<products, products_dict, products_name_dict, products_loaded>>
        \/ CompleteNew'

(***************************************************************************)
(* C21: in every reachable state the key set of products_dict is the set   *)
(* of ids in products, the key set of products_name_dict is the set of     *)
(* names in products, every index value is an element of products stored   *)
(* under its own id or name, and a catalog with products_loaded true holds *)
(* the complete result of a successful load.                               *)
(***************************************************************************)
C21_IndexesAndLoaded == []IndexesConsistent /\ [][LoadedIsComplete]_vars

====
